---------------------------- MODULE Spec2Model ----------------------------
(***************************************************************************)
(* gradient_descent of 01-gradient_descent/GradientDescent.ipynb.          *)
(*                                                                         *)
(* Numbers.  The candidate, the step size and the tolerance are reals.     *)
(* They are modelled as exact decimal numbers m * 10^(-e), kept            *)
(* normalised (no trailing zero in m when e > 0).  Sums, differences and   *)
(* products of decimals are decimals, so h - alpha * derivative_of_f(h)    *)
(* is computed without rounding for every input used here.                 *)
(*                                                                         *)
(* Runs.  Two calls of gradient_descent with the same derivative_of_f,     *)
(* h_0, alpha, max_iter and tol are stepped side by side; each call has    *)
(* its own verbose flag and its own callback argument.                     *)
(***************************************************************************)
EXTENDS Integers, Sequences, FiniteSets

\* ------------------------------------------------------------ decimals
\* The arithmetic is written as functions: a function application evaluates
\* its arguments once, whatever the number of their uses in the body.

Decimal == [m : Int, e : Nat]

Pow10[n \in Nat] == IF n = 0 THEN 1 ELSE 10 * Pow10[n - 1]

Norm[m \in Int, e \in Nat] ==
    IF m = 0 THEN [m |-> 0, e |-> 0]
    ELSE IF e > 0 /\ m % 10 = 0 THEN Norm[m \div 10, e - 1]
    ELSE [m |-> m, e |-> e]

Dec(m, e) == Norm[m, e]
Whole(n) == [m |-> n, e |-> 0]

MaxNat[a \in Nat, b \in Nat] == IF a >= b THEN a ELSE b

\* the mantissa of x written with e decimal places (e >= x.e)
Scaled[x \in Decimal, e \in Nat] == x.m * Pow10[e - x.e]

\* x + y
DAdd[x \in Decimal, y \in Decimal] ==
    LET e == MaxNat[x.e, y.e] IN Norm[Scaled[x, e] + Scaled[y, e], e]
DNeg[x \in Decimal] == [m |-> 0 - x.m, e |-> x.e]
\* x - y
DSub[x \in Decimal, y \in Decimal] == DAdd[x, DNeg[y]]
\* x * y
DMul[x \in Decimal, y \in Decimal] == Norm[x.m * y.m, x.e + y.e]
\* np.abs
DAbs[x \in Decimal] == IF x.m < 0 THEN DNeg[x] ELSE x
\* x < y
DLt[x \in Decimal, y \in Decimal] ==
    LET e == MaxNat[x.e, y.e] IN Scaled[x, e] < Scaled[y, e]
\* x <= y
DLe[x \in Decimal, y \in Decimal] == ~DLt[y, x]

\* x / n for the lengths n of the data sets used (n divides 10)
DDivLen[x \in Decimal, n \in Nat] ==
    IF n = 1 THEN x ELSE DMul[x, Norm[10 \div n, 1]]

DSum[s \in Seq(Decimal)] ==
    IF s = <<>> THEN Whole(0) ELSE DAdd[Head(s), DSum[Tail(s)]]

\* np.mean
Mean[s \in Seq(Decimal)] == DDivLen[DSum[s], Len(s)]

\* ------------------------------------------------------------ derivatives

\* derivative_of_mean_squared_error without the factor 2
derivative_of_mean_squared_error_no2(SALARIES, x) ==
    Mean[[i \in 1..Len(SALARIES) |-> DSub[x, SALARIES[i]]]]

\* derivative_of_mean_squared_error for the data set SALARIES
derivative_of_mean_squared_error(SALARIES, x) ==
    DMul[Whole(2), Mean[[i \in 1..Len(SALARIES) |-> DSub[x, SALARIES[i]]]]]

\* a second callable for derivative_of_f: the derivative of slope * h
derivative_of_linear(slope, x) == slope

\* derivative_of_f(h), for the callable d handed to gradient_descent
Apply(d, x) ==
    IF d.kind = "mse" THEN derivative_of_mean_squared_error(d.data, x)
    ELSE derivative_of_linear(d.slope, x)

Mse(data) == [kind |-> "mse", data |-> data]
Linear(slope) == [kind |-> "linear", slope |-> slope]

\* ------------------------------------------------------------ inputs

MaxIterBound == 3

Runs == {1, 2}

Derivatives ==
    { Mse(<<Whole(2)>>), Mse(<<Whole(1), Whole(4)>>), Linear(Whole(0)), Linear(Whole(1)) }
H0Values == { Whole(0), Whole(2), Dec(25, 1), Whole(4) }
AlphaValues == { Dec(25, 2), Dec(5, 1), Whole(1), Dec(15, 1) }
\* tol is not validated: a negative tolerance is an input like any other
TolValues == { Whole(0 - 1), Whole(0), Dec(1, 1), Whole(1), Whole(4) }

GenericCalls ==
    [ d : Derivatives, h_0 : H0Values, alpha : AlphaValues,
      max_iter : 0..MaxIterBound, tol : TolValues ]

\* The notebook's call with the step size that diverges: h_0 = 60000,
\* alpha = 1.1, n_iters = 6.  The salary data and visualize_gradient_descent
\* are not part of the sources at hand: the mean of the data is 100000, as the
\* specification gives it, and the tolerance is the one of the notebook's
\* direct call (.001); any tolerance up to the first delta, 88000, gives the
\* same run.
DivergeIters == 6
DivergeSalaries == <<Whole(100000)>>
DivergeCall ==
    [ d |-> Mse(DivergeSalaries), h_0 |-> Whole(60000), alpha |-> Dec(11, 1),
      max_iter |-> DivergeIters, tol |-> Dec(1, 3) ]

\* The notebook's two converging visualisations on the same data and h_0, with
\* step sizes .1 and .25.  The notebook runs n_iters = 10 iterations of each;
\* the first CompareIters of them are followed here.
CompareIters == 6
SlowCall ==
    [ d |-> Mse(DivergeSalaries), h_0 |-> Whole(60000), alpha |-> Dec(1, 1),
      max_iter |-> CompareIters, tol |-> Dec(1, 3) ]
FastCall ==
    [ d |-> Mse(DivergeSalaries), h_0 |-> Whole(60000), alpha |-> Dec(25, 2),
      max_iter |-> CompareIters, tol |-> Dec(1, 3) ]

Calls == GenericCalls \cup {DivergeCall, SlowCall, FastCall}

\* ------------------------------------------------------------ state

VARIABLES
    derivative_of_f, h_0, alpha, max_iter, tol,   \* the arguments both runs share
    verbose, callback,                            \* per run
    h, iteration,                                 \* per run: the loop's locals
    pc, reason, ret,                              \* per run: control, why it ended, value returned
    printed, cb_args, evals,                      \* per run: what was printed, passed to the
                                                  \* callback, and where derivative_of_f was called
    call                                          \* 1 in the first call, 2 in a call re-invoked
                                                  \* on the first call's output

vars == << derivative_of_f, h_0, alpha, max_iter, tol, verbose, callback,
           h, iteration, pc, reason, ret, printed, cb_args, evals, call >>

args == << derivative_of_f, h_0, alpha, max_iter, tol, verbose, callback, call >>

NoValue == [m |-> 0, e |-> 0 - 1]

Init ==
    /\ \E c \in Calls :
          /\ derivative_of_f = c.d
          /\ h_0 = c.h_0
          /\ alpha = c.alpha
          /\ max_iter = c.max_iter
          /\ tol = c.tol
    /\ verbose \in [Runs -> BOOLEAN]
    /\ callback \in [Runs -> {"None", "fn"}]
    /\ h = [r \in Runs |-> h_0]
    /\ iteration = [r \in Runs |-> 0]
    /\ pc = [r \in Runs |-> "Running"]
    /\ reason = [r \in Runs |-> "none"]
    /\ ret = [r \in Runs |-> NoValue]
    /\ printed = [r \in Runs |-> <<>>]
    /\ cb_args = [r \in Runs |-> <<>>]
    /\ evals = [r \in Runs |-> <<>>]
    /\ call = 1

\* ------------------------------------------------------------ the loop

\* HNext with the step size left out
HNextNoAlpha(x) == DSub[x, Apply(derivative_of_f, x)]

\* HNext stepping up the slope
HNextPlus(x) == DAdd[x, DMul[alpha, Apply(derivative_of_f, x)]]

\* HNext for a derivative_of_f that is not pure: it counts its calls in a
\* variable the two runs share and adds the count to its result
HNextCounting(x) ==
    DSub[x, DMul[alpha, DAdd[Apply(derivative_of_f, x),
                             Whole(Len(evals[1]) + Len(evals[2]))]]]

\* h_next = h - alpha * derivative_of_f(h)
HNext(x) == DSub[x, DMul[alpha, Apply(derivative_of_f, x)]]

\* Converged with <= for <
ConvergedLe(h_next, x) == DLe[DAbs[DSub[h_next, x]], tol]

\* Converged with the comparison turned round
ConvergedInverted(h_next, x) == DLt[tol, DAbs[DSub[h_next, x]]]

\* Converged with the change measured relative to |h|
ConvergedRelative(h_next, x) == DLt[DAbs[DSub[h_next, x]], DMul[tol, DAbs[x]]]

\* np.abs(h_next - h) < tol
Converged(h_next, x) == DLt[DAbs[DSub[h_next, x]], tol]

\* Break returning the value just computed
BreakReturnsNext(r) ==
    /\ pc' = [pc EXCEPT ![r] = "Terminated"]
    /\ reason' = [reason EXCEPT ![r] = "tol"]
    /\ ret' = [ret EXCEPT ![r] = DSub[h[r], DMul[alpha, Apply(derivative_of_f, h[r])]]]
    /\ UNCHANGED << h, iteration, printed, cb_args >>

\* Break that goes on to the for loop's else clause
BreakAnnounces(r) ==
    /\ pc' = [pc EXCEPT ![r] = "Terminated"]
    /\ reason' = [reason EXCEPT ![r] = "tol"]
    /\ ret' = [ret EXCEPT ![r] = h[r]]
    /\ printed' = [printed EXCEPT ![r] =
                      IF verbose[r] THEN Append(@, [line |-> "Reached Max Iters"]) ELSE @]
    /\ UNCHANGED << h, iteration, cb_args >>

\* break, then return h
Break(r) ==
    /\ pc' = [pc EXCEPT ![r] = "Terminated"]
    /\ reason' = [reason EXCEPT ![r] = "tol"]
    /\ ret' = [ret EXCEPT ![r] = h[r]]
    /\ UNCHANGED << h, iteration, printed, cb_args >>

\* Adopt with `h = h_next` indented under `if callback is not None`
AdoptUnderCallback(r, h_next) ==
    /\ printed' = [printed EXCEPT ![r] =
                      IF verbose[r]
                      THEN Append(@, [line |-> "iter", iteration |-> iteration[r], h |-> h_next])
                      ELSE @]
    /\ cb_args' = [cb_args EXCEPT ![r] =
                      IF callback[r] # "None" THEN Append(@, h_next) ELSE @]
    /\ h' = [h EXCEPT ![r] = IF callback[r] # "None" THEN h_next ELSE @]
    /\ iteration' = [iteration EXCEPT ![r] = @ + 1]
    /\ UNCHANGED << pc, reason, ret >>

\* Adopt calling callback(h) for callback(h_next)
AdoptCallbackOld(r, h_next) ==
    /\ printed' = [printed EXCEPT ![r] =
                      IF verbose[r]
                      THEN Append(@, [line |-> "iter", iteration |-> iteration[r], h |-> h_next])
                      ELSE @]
    /\ cb_args' = [cb_args EXCEPT ![r] =
                      IF callback[r] # "None" THEN Append(@, h[r]) ELSE @]
    /\ h' = [h EXCEPT ![r] = h_next]
    /\ iteration' = [iteration EXCEPT ![r] = @ + 1]
    /\ UNCHANGED << pc, reason, ret >>

\* Adopt printing h for h_next
AdoptPrintsOld(r, h_next) ==
    /\ printed' = [printed EXCEPT ![r] =
                      IF verbose[r]
                      THEN Append(@, [line |-> "iter", iteration |-> iteration[r], h |-> h[r]])
                      ELSE @]
    /\ cb_args' = [cb_args EXCEPT ![r] =
                      IF callback[r] # "None" THEN Append(@, h_next) ELSE @]
    /\ h' = [h EXCEPT ![r] = h_next]
    /\ iteration' = [iteration EXCEPT ![r] = @ + 1]
    /\ UNCHANGED << pc, reason, ret >>

\* Adopt without `h = h_next`
AdoptStale(r, h_next) ==
    /\ printed' = [printed EXCEPT ![r] =
                      IF verbose[r]
                      THEN Append(@, [line |-> "iter", iteration |-> iteration[r], h |-> h_next])
                      ELSE @]
    /\ cb_args' = [cb_args EXCEPT ![r] =
                      IF callback[r] # "None" THEN Append(@, h_next) ELSE @]
    /\ h' = h
    /\ iteration' = [iteration EXCEPT ![r] = @ + 1]
    /\ UNCHANGED << pc, reason, ret >>

\* the rest of the loop body: print, callback, h = h_next
Adopt(r, h_next) ==
    /\ printed' = [printed EXCEPT ![r] =
                      IF verbose[r]
                      THEN Append(@, [line |-> "iter", iteration |-> iteration[r], h |-> h_next])
                      ELSE @]
    /\ cb_args' = [cb_args EXCEPT ![r] =
                      IF callback[r] # "None" THEN Append(@, h_next) ELSE @]
    /\ h' = [h EXCEPT ![r] = h_next]
    /\ iteration' = [iteration EXCEPT ![r] = @ + 1]
    /\ UNCHANGED << pc, reason, ret >>

\* Step over range(max_iter + 1)
StepOneMore(r) ==
    /\ pc[r] = "Running"
    /\ iteration[r] < max_iter + 1
    /\ evals' = [evals EXCEPT ![r] = Append(@, h[r])]
    /\ LET h_next == DSub[h[r], DMul[alpha, Apply(derivative_of_f, h[r])]] IN
          IF DLt[DAbs[DSub[h_next, h[r]]], tol]
          THEN /\ pc' = [pc EXCEPT ![r] = "Terminated"]
               /\ reason' = [reason EXCEPT ![r] = "tol"]
               /\ ret' = [ret EXCEPT ![r] = h[r]]
               /\ UNCHANGED << h, iteration, printed, cb_args >>
          ELSE /\ printed' = [printed EXCEPT ![r] =
                      IF verbose[r]
                      THEN Append(@, [line |-> "iter", iteration |-> iteration[r], h |-> h_next])
                      ELSE @]
               /\ cb_args' = [cb_args EXCEPT ![r] =
                      IF callback[r] # "None" THEN Append(@, h_next) ELSE @]
               /\ h' = [h EXCEPT ![r] = h_next]
               /\ iteration' = [iteration EXCEPT ![r] = @ + 1]
               /\ UNCHANGED << pc, reason, ret >>
    /\ UNCHANGED << derivative_of_f, h_0, alpha, max_iter, tol, verbose, callback, call >>

\* Step calling derivative_of_f(h) a second time for the tolerance check
StepEvaluatesTwice(r) ==
    /\ pc[r] = "Running"
    /\ iteration[r] < max_iter
    /\ evals' = [evals EXCEPT ![r] = Append(Append(@, h[r]), h[r])]
    /\ LET h_next == DSub[h[r], DMul[alpha, Apply(derivative_of_f, h[r])]] IN
          IF DLt[DAbs[DSub[h_next, h[r]]], tol]
          THEN /\ pc' = [pc EXCEPT ![r] = "Terminated"]
               /\ reason' = [reason EXCEPT ![r] = "tol"]
               /\ ret' = [ret EXCEPT ![r] = h[r]]
               /\ UNCHANGED << h, iteration, printed, cb_args >>
          ELSE /\ printed' = [printed EXCEPT ![r] =
                      IF verbose[r]
                      THEN Append(@, [line |-> "iter", iteration |-> iteration[r], h |-> h_next])
                      ELSE @]
               /\ cb_args' = [cb_args EXCEPT ![r] =
                      IF callback[r] # "None" THEN Append(@, h_next) ELSE @]
               /\ h' = [h EXCEPT ![r] = h_next]
               /\ iteration' = [iteration EXCEPT ![r] = @ + 1]
               /\ UNCHANGED << pc, reason, ret >>
    /\ UNCHANGED << derivative_of_f, h_0, alpha, max_iter, tol, verbose, callback, call >>

\* one iteration of `for iteration in range(max_iter)`
Step(r) ==
    /\ pc[r] = "Running"
    /\ iteration[r] < max_iter
    /\ evals' = [evals EXCEPT ![r] = Append(@, h[r])]
    /\ LET h_next == HNext(h[r]) IN
          IF Converged(h_next, h[r]) THEN Break(r) ELSE Adopt(r, h_next)
    /\ UNCHANGED args

\* Exhaust one iteration early, as for range(max_iter - 1)
ExhaustEarly(r) ==
    /\ pc[r] = "Running"
    /\ iteration[r] >= max_iter - 1
    /\ printed' = [printed EXCEPT ![r] =
                      IF verbose[r] THEN Append(@, [line |-> "Reached Max Iters"]) ELSE @]
    /\ pc' = [pc EXCEPT ![r] = "Terminated"]
    /\ reason' = [reason EXCEPT ![r] = "cap"]
    /\ ret' = [ret EXCEPT ![r] = h[r]]
    /\ UNCHANGED << h, iteration, cb_args, evals >>
    /\ UNCHANGED << derivative_of_f, h_0, alpha, max_iter, tol, verbose, callback, call >>

\* range(max_iter) is exhausted: the for loop's else clause, then return h
Exhaust(r) ==
    /\ pc[r] = "Running"
    /\ iteration[r] >= max_iter
    /\ printed' = [printed EXCEPT ![r] =
                      IF verbose[r] THEN Append(@, [line |-> "Reached Max Iters"]) ELSE @]
    /\ pc' = [pc EXCEPT ![r] = "Terminated"]
    /\ reason' = [reason EXCEPT ![r] = "cap"]
    /\ ret' = [ret EXCEPT ![r] = h[r]]
    /\ UNCHANGED << h, iteration, cb_args, evals >>
    /\ UNCHANGED args

Next == \E r \in Runs : Step(r) \/ Exhaust(r)

Spec == Init /\ [][Next]_vars

\* The caller invokes gradient_descent again, starting from its own output,
\* with the same derivative, step size, tolerance and iteration cap, once the
\* first call has stopped by the tolerance check.
Reinvoke ==
    /\ call = 1
    /\ \A r \in Runs : pc[r] = "Terminated" /\ reason[r] = "tol"
    /\ call' = 2
    /\ h_0' = ret[1]
    /\ h' = [r \in Runs |-> ret[1]]
    /\ iteration' = [r \in Runs |-> 0]
    /\ pc' = [r \in Runs |-> "Running"]
    /\ reason' = [r \in Runs |-> "none"]
    /\ ret' = [r \in Runs |-> NoValue]
    /\ printed' = [r \in Runs |-> <<>>]
    /\ cb_args' = [r \in Runs |-> <<>>]
    /\ evals' = [r \in Runs |-> <<>>]
    /\ UNCHANGED << derivative_of_f, alpha, max_iter, tol, verbose, callback >>

NextReinvoke == Next \/ Reinvoke

ReinvokeSpec == Init /\ [][NextReinvoke]_vars

\* the interpreter runs every call to its return
FairSpec == Spec /\ \A r \in Runs : WF_vars(Step(r) \/ Exhaust(r))

\* ------------------------------------------------------------ reading a run

\* the update map h -> h - alpha * derivative_of_f(h), written out
GradientStep(x) == DSub[x, DMul[alpha, Apply(derivative_of_f, x)]]

\* the k-fold application of the update map to h_0
RECURSIVE KFold(_)
KFold(k) == IF k = 0 THEN h_0 ELSE GradientStep(KFold(k - 1))

\* |GradientStep(x) - x|, the per-step delta at x
Delta(x) == DAbs[DSub[GradientStep(x), x]]

\* the candidates of run r so far: h_0, h_1, ..., h_k (k = iteration[r])
Trajectory(r) ==
    [i \in 1..(iteration[r] + 1) |->
        IF i <= Len(evals[r]) THEN evals[r][i] ELSE h[r]]

IsMse == derivative_of_f.kind = "mse"
\* the minimizer c of the mean squared error (the mean of the data)
Centre == Mean[derivative_of_f.data]
Dist(x) == DAbs[DSub[x, Centre]]

\* ------------------------------------------------------------ claims

\* C1: every iteration evaluates the update h - alpha*derivative_of_f(h) at the
\* current candidate, and after k non-converging iterations the candidate is the
\* k-fold application of that update to h_0.
C1_CandidateIsKFold ==
    \A r \in Runs :
        /\ h[r] = KFold(iteration[r])
        /\ \A i \in 1..Len(evals[r]) : evals[r][i] = KFold(i - 1)

C1_Witness ==
    \E r \in Runs :
        /\ iteration[r] >= 2
        /\ h[r] # h_0
        /\ h[r] # GradientStep(h_0)

\* C2: when |next - current| < tol the run terminates on that iteration and
\* returns current, the pre-update value (h_0 when this happens on iteration 1).
C2_ReturnsPreUpdate ==
    \A r \in Runs :
        reason[r] = "tol" =>
            /\ pc[r] = "Terminated"
            /\ ret[r] = KFold(iteration[r])
            /\ DLt[Delta(ret[r]), tol]
            /\ Len(evals[r]) = iteration[r] + 1
            /\ (Len(evals[r]) = 1 => ret[r] = h_0)

C2_Witness ==
    \E r \in Runs :
        /\ reason[r] = "tol"
        /\ iteration[r] >= 1
        /\ GradientStep(ret[r]) # ret[r]

\* C3: if the tolerance check fails on all max_iter iterations, the run ends at
\* the cap and returns the candidate after exactly max_iter updates of h_0.
C3_CapReturnsLast ==
    \A r \in Runs :
        ( /\ pc[r] = "Terminated"
          /\ \A i \in 0..(max_iter - 1) : ~DLt[Delta(KFold(i)), tol] ) =>
            /\ reason[r] = "cap"
            /\ iteration[r] = max_iter
            /\ ret[r] = KFold(max_iter)

C3_Witness ==
    \E r \in Runs :
        /\ reason[r] = "cap"
        /\ max_iter >= 2
        /\ ret[r] # h_0
        /\ ret[r] # GradientStep(h_0)

\* C4: for every derivative, h_0, alpha, tol and max_iter >= 0 the call
\* terminates, after at most max_iter iterations (so at most max_iter updates,
\* callback invocations and derivative evaluations).
C4_Terminates ==
    /\ <>(\A r \in Runs : pc[r] = "Terminated")
    /\ [](\A r \in Runs :
            /\ iteration[r] <= max_iter
            /\ Len(evals[r]) <= max_iter
            /\ Len(cb_args[r]) <= max_iter)

C4_Witness ==
    \E r \in Runs :
        /\ pc[r] = "Terminated"
        /\ max_iter >= 2
        /\ Len(evals[r]) = max_iter

\* C5: a run is Running or Terminated; it leaves Running only when the per-step
\* delta at the current candidate is under tol or when the iteration cap is
\* reached, and once Terminated it stays Terminated with its candidate and
\* its returned value unchanged.
C5_TwoStates ==
    /\ [](\A r \in Runs : pc[r] \in {"Running", "Terminated"})
    /\ [][\A r \in Runs :
            /\ (pc[r] = "Running" /\ pc'[r] = "Terminated") =>
                  \/ (iteration[r] < max_iter /\ DLt[Delta(h[r]), tol] /\ reason'[r] = "tol")
                  \/ (iteration[r] = max_iter /\ reason'[r] = "cap")
            /\ pc[r] = "Terminated" =>
                  /\ pc'[r] = "Terminated"
                  /\ h'[r] = h[r]
                  /\ iteration'[r] = iteration[r]
                  /\ ret'[r] = ret[r]
                  /\ cb_args'[r] = cb_args[r]]_vars

C5_Witness ==
    /\ pc[1] = "Terminated" /\ reason[1] = "tol" /\ iteration[1] >= 1
    /\ pc[2] = "Running" /\ iteration[2] >= 1

\* C6: verbose and callback do not affect the result: two runs on the same
\* derivative_of_f, h_0, alpha, max_iter and tol return the same value after
\* the same number of iterations, whatever their verbose and callback arguments.
C6_FlagsDoNotAffectResult ==
    \A r1, r2 \in Runs :
        (pc[r1] = "Terminated" /\ pc[r2] = "Terminated") =>
            /\ ret[r1] = ret[r2]
            /\ iteration[r1] = iteration[r2]
            /\ Len(evals[r1]) = Len(evals[r2])
            /\ reason[r1] = reason[r2]

C6_Witness ==
    /\ pc[1] = "Terminated" /\ pc[2] = "Terminated"
    /\ verbose[1] /\ ~verbose[2]
    /\ callback[1] = "fn" /\ callback[2] = "None"
    /\ iteration[1] >= 2
    /\ ret[1] # h_0
    /\ printed[1] # printed[2]
    /\ cb_args[1] # cb_args[2]

\* C7: the callback is called once per update with the new position: its
\* arguments over a run are the adopted candidates h_1, ..., h_k in order, and
\* the next value computed on the converging iteration is never passed to it.
C7_CallbackSeesAdopted ==
    \A r \in Runs :
        callback[r] # "None" =>
            /\ cb_args[r] = [i \in 1..iteration[r] |-> KFold(i)]
            /\ (reason[r] = "tol" /\ cb_args[r] # <<>>) =>
                  cb_args[r][Len(cb_args[r])] = ret[r]

C7_Witness ==
    \E r \in Runs :
        /\ callback[r] = "fn"
        /\ reason[r] = "tol"
        /\ Len(cb_args[r]) >= 2
        /\ \A i \in 1..Len(cb_args[r]) : cb_args[r][i] # GradientStep(ret[r])

\* C8: divergence is not an error.  With the mean-squared-error derivative,
\* a step size over 1 and a first delta of at least tol, every delta stays at
\* least tol: the run is never stuck, never stops by the tolerance check, ends
\* at the iteration cap and returns its last candidate.
StepTooLarge ==
    /\ IsMse
    /\ DLt[Whole(1), alpha]
    /\ h_0 # Centre
    /\ DLe[tol, DMul[DMul[Whole(2), alpha], Dist(h_0)]]

C8_DivergenceIsNotAnError ==
    StepTooLarge =>
        \A r \in Runs :
            /\ pc[r] = "Running" => ENABLED (Step(r) \/ Exhaust(r))
            /\ reason[r] # "tol"
            /\ DLe[Dist(h_0), Dist(h[r])]
            /\ pc[r] = "Terminated" =>
                  /\ reason[r] = "cap"
                  /\ iteration[r] = max_iter
                  /\ Len(evals[r]) = max_iter
                  /\ ret[r] = h[r]

C8_Witness ==
    /\ StepTooLarge
    /\ \E r \in Runs :
          /\ pc[r] = "Terminated"
          /\ max_iter >= 2
          /\ DLt[Dist(h_0), Dist(ret[r])]

\* the arguments are those of the notebook's diverging call
IsDivergeCall ==
    /\ derivative_of_f = DivergeCall.d
    /\ h_0 = DivergeCall.h_0
    /\ alpha = DivergeCall.alpha
    /\ max_iter = DivergeCall.max_iter
    /\ tol = DivergeCall.tol

\* C9, as stated: with derivative 2*(h - 100000), h_0 = 60000, alpha = 1.1 and
\* cap 6, the candidates grow in magnitude: each candidate is larger in
\* absolute value than the one before it.
C9_MagnitudeGrows ==
    IsDivergeCall =>
        \A r \in Runs : \A i \in 1..iteration[r] :
            DLt[DAbs[Trajectory(r)[i]], DAbs[Trajectory(r)[i + 1]]]

\* C9, amended: in that call the distance of the candidates from the
\* minimizer 100000 grows strictly at every update, the tolerance check never
\* passes and the run ends at the cap of 6 iterations.
C9_DistanceGrows ==
    IsDivergeCall =>
        \A r \in Runs :
            /\ \A i \in 1..iteration[r] :
                  DLt[Dist(Trajectory(r)[i]), Dist(Trajectory(r)[i + 1])]
            /\ reason[r] # "tol"
            /\ pc[r] = "Terminated" => iteration[r] = DivergeIters

C9_Witness ==
    /\ IsDivergeCall
    /\ \E r \in Runs :
          /\ pc[r] = "Terminated"
          /\ iteration[r] = DivergeIters
          /\ ret[r] = Dec(0 - 1943936, 2)
          /\ DLt[DAbs[ret[r]], DAbs[h_0]]

C11_TerminalStateIdempotent ==
    call = 2 =>
        \A r \in Runs :
            /\ iteration[r] = 0
            /\ cb_args[r] = <<>>
            /\ h[r] = h_0
            /\ pc[r] = "Terminated" =>
                  /\ reason[r] = "tol"
                  /\ ret[r] = h_0
                  /\ Len(evals[r]) = 1

C11_Witness ==
    /\ call = 2
    /\ \E r \in Runs :
          /\ pc[r] = "Terminated"
          /\ callback[r] = "fn"
          /\ ret[r] = h_0
          /\ GradientStep(h_0) # h_0

\* C12, as stated: with max_iter = 0 the call returns h_0 without evaluating
\* the derivative or invoking the callback, and with max_iter = 1 it returns
\* the first computed candidate h_0 - alpha*derivative_of_f(h_0).
C12_BoundaryAsStated ==
    \A r \in Runs :
        pc[r] = "Terminated" =>
            /\ max_iter = 0 => (ret[r] = h_0 /\ evals[r] = <<>> /\ cb_args[r] = <<>>)
            /\ max_iter = 1 => ret[r] = GradientStep(h_0)

\* C12, amended: with max_iter = 0 the call returns h_0 without evaluating the
\* derivative or invoking the callback; with max_iter = 1 it returns the first
\* computed candidate, unless the tolerance check passes on that iteration, in
\* which case it returns h_0; in neither case is the run stuck in an error.
C12_Boundary ==
    \A r \in Runs :
        /\ (max_iter <= 1 /\ pc[r] = "Running") => ENABLED (Step(r) \/ Exhaust(r))
        /\ pc[r] = "Terminated" =>
              /\ max_iter = 0 =>
                    /\ ret[r] = h_0
                    /\ evals[r] = <<>>
                    /\ cb_args[r] = <<>>
                    /\ reason[r] = "cap"
              /\ max_iter = 1 =>
                    /\ Len(evals[r]) = 1
                    /\ ret[r] = IF DLt[Delta(h_0), tol] THEN h_0 ELSE GradientStep(h_0)

C12_Witness ==
    /\ max_iter = 1
    /\ pc[1] = "Terminated" /\ pc[2] = "Terminated"
    /\ reason[1] = "cap"
    /\ ret[1] = GradientStep(h_0)
    /\ ret[1] # h_0

\* C13: the tolerance is a threshold on the absolute change: an iteration is
\* converged (the run stops there, candidate unchanged) if and only if
\* |next - current| < tol strictly; otherwise, also when the change equals tol,
\* next is adopted.
C13_StrictAbsoluteThreshold ==
    [][\A r \in Runs :
          Len(evals'[r]) = Len(evals[r]) + 1 =>
              /\ DLt[Delta(h[r]), tol] <=>
                    (pc'[r] = "Terminated" /\ reason'[r] = "tol" /\ h'[r] = h[r])
              /\ ~DLt[Delta(h[r]), tol] <=>
                    (pc'[r] = "Running" /\ h'[r] = GradientStep(h[r])
                       /\ iteration'[r] = iteration[r] + 1)]_vars

C13_Witness ==
    \E r \in Runs :
        /\ iteration[r] >= 1
        /\ tol # Whole(0)
        /\ Delta(h_0) = tol
        /\ h[r] # h_0

\* the trace lines of the adopted updates of run r
IterLines(r) ==
    [i \in 1..iteration[r] |->
        [line |-> "iter", iteration |-> i - 1, h |-> KFold(i)]]

\* C14: with verbose=True exactly one trace line is printed per adopted update,
\* carrying the 0-based iteration index and the newly adopted candidate; the
\* indexes are 0..k-1 without gaps and the converging iteration prints nothing.
C14_VerboseTrace ==
    \A r \in Runs :
        /\ ~verbose[r] => printed[r] = <<>>
        /\ verbose[r] =>
              /\ reason[r] # "cap" => printed[r] = IterLines(r)
              /\ reason[r] = "cap" =>
                    printed[r] = Append(IterLines(r), [line |-> "Reached Max Iters"])

C14_Witness ==
    \E r \in Runs :
        /\ verbose[r]
        /\ reason[r] = "tol"
        /\ Len(printed[r]) = 2
        /\ printed[r][2].iteration = 1
        /\ printed[r][2].h = ret[r]
        /\ GradientStep(ret[r]) # ret[r]

\* the update map with step size a, and its k-fold application to h_0
StepWith(a, x) == DSub[x, DMul[a, Apply(derivative_of_f, x)]]
RECURSIVE FoldWith(_, _)
FoldWith(a, k) == IF k = 0 THEN h_0 ELSE StepWith(a, FoldWith(a, k - 1))

\* the arguments are those of the notebook's visualisation with step size a
IsCompareCall(a) ==
    /\ derivative_of_f = SlowCall.d
    /\ h_0 = SlowCall.h_0
    /\ alpha = a
    /\ max_iter = CompareIters

\* C16: for the mean-squared-error derivative started at h_0 = 60000, after
\* every number k >= 1 of updates the candidate obtained with alpha = .25 is
\* strictly closer to the mean than the candidate obtained with alpha = .1
\* (neither run stops by the tolerance check within the iterations followed).
C16_LargerStepIsCloser ==
    \A r \in Runs :
        /\ (IsCompareCall(FastCall.alpha) /\ iteration[r] >= 1) =>
              DLt[Dist(h[r]), Dist(FoldWith(SlowCall.alpha, iteration[r]))]
        /\ (IsCompareCall(SlowCall.alpha) /\ iteration[r] >= 1) =>
              DLt[Dist(FoldWith(FastCall.alpha, iteration[r])), Dist(h[r])]
        /\ (IsCompareCall(FastCall.alpha) \/ IsCompareCall(SlowCall.alpha)) =>
              /\ reason[r] # "tol"
              /\ pc[r] = "Terminated" => iteration[r] = CompareIters

C16_Witness ==
    /\ IsCompareCall(FastCall.alpha)
    /\ \E r \in Runs :
          /\ pc[r] = "Terminated"
          /\ iteration[r] = CompareIters
          /\ ret[r] # Centre
          /\ DLt[Dist(ret[r]), Dist(FoldWith(SlowCall.alpha, CompareIters))]

\* x - c, the signed offset of x from the minimizer
Offset(x) == DSub[x, Centre]

\* x and y lie strictly on opposite sides of c
OppositeSides(x, y) ==
    \/ DLt[Offset(x), Whole(0)] /\ DLt[Whole(0), Offset(y)]
    \/ DLt[Whole(0), Offset(x)] /\ DLt[Offset(y), Whole(0)]

\* 40000 * 1.2^k
RECURSIVE DivergeDistance(_)
DivergeDistance(k) ==
    IF k = 0 THEN Dist(DivergeCall.h_0) ELSE DMul[Dec(12, 1), DivergeDistance(k - 1)]

Mirror == DSub[DMul[Whole(2), Centre], h_0]

C20_AdoptedChangeAtLeastTol ==
    \A r \in Runs : \A i \in 1..iteration[r] :
        /\ DLe[tol, DAbs[DSub[Trajectory(r)[i + 1], Trajectory(r)[i]]]]
        /\ DLt[Whole(0), tol] => Trajectory(r)[i + 1] # Trajectory(r)[i]

C20_Witness ==
    \E r \in Runs :
        /\ iteration[r] >= 2
        /\ DLt[Whole(0), tol]
        /\ DAbs[DSub[Trajectory(r)[3], Trajectory(r)[2]]] = tol

\* C21: with tol <= 0 the tolerance check never passes: the run ends at the
\* cap after exactly max_iter iterations; started at a stationary point
\* (derivative_of_f(h_0) = 0) the candidate stays h_0, every callback
\* invocation gets h_0, there are max_iter of them, and h_0 is returned.
C21_NonPositiveTolRunsToCap ==
    DLe[tol, Whole(0)] =>
        \A r \in Runs :
            /\ reason[r] # "tol"
            /\ pc[r] = "Terminated" =>
                  /\ reason[r] = "cap"
                  /\ iteration[r] = max_iter
                  /\ Len(evals[r]) = max_iter
            /\ Apply(derivative_of_f, h_0) = Whole(0) =>
                  /\ h[r] = h_0
                  /\ \A i \in 1..Len(cb_args[r]) : cb_args[r][i] = h_0
                  /\ pc[r] = "Terminated" =>
                        /\ ret[r] = h_0
                        /\ callback[r] # "None" => Len(cb_args[r]) = max_iter

C21_Witness ==
    /\ tol = Whole(0)
    /\ Apply(derivative_of_f, h_0) = Whole(0)
    /\ max_iter = MaxIterBound
    /\ \E r \in Runs :
          /\ callback[r] # "None"
          /\ pc[r] = "Terminated"
          /\ Len(cb_args[r]) = max_iter
          /\ cb_args[r][max_iter] = h_0
          /\ ret[r] = h_0

\* the positions of the 'Reached Max Iters' message in what run r printed
CapLines(r) ==
    { i \in 1..Len(printed[r]) : printed[r][i].line = "Reached Max Iters" }

\* the tolerance check fails at each of the first max_iter candidates
NeverUnderTol == \A i \in 0..(max_iter - 1) : ~DLt[Delta(KFold(i)), tol]

\* C22: a verbose run prints 'Reached Max Iters' exactly when it has done all
\* max_iter iterations without the tolerance check passing (max_iter = 0
\* included); a run stopped by the tolerance check never prints it, a run
\* that is not verbose never prints it, and it is printed at most once, as the
\* last line, after every per-iteration line.
C22_CapMessage ==
    \A r \in Runs :
        /\ Cardinality(CapLines(r)) <= 1
        /\ CapLines(r) \subseteq {Len(printed[r])}
        /\ CapLines(r) # {} => pc[r] = "Terminated" /\ verbose[r]
        /\ reason[r] = "tol" => CapLines(r) = {}
        /\ (pc[r] = "Terminated" /\ verbose[r]) =>
              /\ CapLines(r) # {} <=> (iteration[r] = max_iter /\ NeverUnderTol)
              /\ CapLines(r) # {} <=> Len(evals[r]) = iteration[r]
              /\ Len(printed[r]) = iteration[r] + Cardinality(CapLines(r))

C22_Witness ==
    \E r \in Runs :
        /\ verbose[r]
        /\ reason[r] = "cap"
        /\ max_iter >= 2
        /\ Len(printed[r]) = max_iter + 1
        /\ CapLines(r) = {max_iter + 1}

\* a verbose run whose tolerance check passes on the last permitted iteration
C22_LastIterationConverges ==
    \E r \in Runs :
        /\ verbose[r]
        /\ reason[r] = "tol"
        /\ max_iter >= 2
        /\ Len(evals[r]) = max_iter
        /\ Len(printed[r]) = max_iter - 1

\* the value a run reports last: the argument of the last callback
\* invocation, or h_0 when there was none
LastReported(r) ==
    IF cb_args[r] = <<>> THEN h_0 ELSE cb_args[r][Len(cb_args[r])]

Iterates(r) ==
    \/ iteration'[r] # iteration[r]
    \/ reason[r] = "none" /\ reason'[r] = "tol"

\* C24: derivative_of_f is evaluated once per iteration, at the current
\* candidate, and nowhere else.  With k adopted updates the evaluations so far
\* number k in a running run, k + 1 in a run stopped by the tolerance check and
\* k = max_iter in a run stopped at the cap, never more than max_iter; the
\* i-th evaluation point is the candidate after i - 1 updates.
C24_OneEvaluationPerIteration ==
    /\ [](\A r \in Runs :
            /\ Len(evals[r]) <= max_iter
            /\ \A i \in 1..Len(evals[r]) : evals[r][i] = KFold(i - 1)
            /\ reason[r] = "none" => Len(evals[r]) = iteration[r]
            /\ reason[r] = "tol" => Len(evals[r]) = iteration[r] + 1
            /\ reason[r] = "cap" =>
                  Len(evals[r]) = iteration[r] /\ iteration[r] = max_iter)
    /\ [][\A r \in Runs :
            evals'[r] = IF Iterates(r) THEN Append(evals[r], h[r]) ELSE evals[r]]_vars

C24_Witness ==
    \E r \in Runs :
        /\ reason[r] = "tol"
        /\ iteration[r] >= 2
        /\ Len(evals[r]) = iteration[r] + 1
        /\ evals[r][1] # evals[r][2]
        /\ evals[r][2] # evals[r][3]
        /\ evals[r][1] # evals[r][3]

\* s and t agree wherever both are defined
Agree(s, t) ==
    \A i \in 1..Len(s) : i <= Len(t) => s[i] = t[i]

=============================================================================
